---- MODULE Spec2Model ----
(***************************************************************************)
(* Model of the MPI master / timeout sentinel / worker protocol of         *)
(* main.cpp (pChop): master(), worker(), timeOutCheck(), and the part of   *)
(* the interpreter that talks to the master from inside executeWorker().   *)
(*                                                                         *)
(* Processes: rank 0 master, rank 1 timeout sentinel, ranks 2..N-1 worker. *)
(* toMaster[s] is the FIFO of messages rank s has sent to rank 0 and that  *)
(* rank 0 has not received; toWorker[r] the FIFO from rank 0 to worker r.  *)
(* assert() is compiled in: a failed assertion stops the master.           *)
(***************************************************************************)
EXTENDS Integers, Sequences, FiniteSets, TLC

\* ------------------------------------------------------------------ bounds
MaxCores == 4
StealCores == 5
StealPaths == 2
MaxPaths == 3
MaxAdverts == 3
MaxOffers == 1
RaceOffers == 3
ShortLen == 3
LongLen == 5

\* ------------------------------------------------------- program constants
START_PREFIX_TASK == 0
KILL == 1
FINISH == 2
OFFLOAD == 3
OFFLOAD_RESP == 4
BUG_FOUND == 5
TIMEOUT == 6
NORMAL_TASK == 7
KILL_COMP == 8
READY_TO_OFFLOAD == 9
NOT_READY_TO_OFFLOAD == 10
MASTER_NODE == 0
EmptyOfferThreshold == 4
FirstWorker == 2

VARIABLES
  num_cores,          \* MPI_Comm_size
  lb,                 \* --lb
  phase1Depth,        \* --phase1Depth (0, or a positive depth)
  searchPolicy,       \* --searchPolicy
  pathSizes,          \* length of each phase-1 prefix, in phase-1 order
  mpc,                \* where the master is
  cnt,                \* number of phase-1 prefixes sent so far
  freeList, busyList, offloadReadyList, offloadActiveList,
  offloadActive,
  collectX,           \* x of the KILL_COMP receive loop
  outcome,            \* what the master logged before it stopped
  toMaster, toWorker, \* messages in flight
  wstate,             \* where each worker is
  searchMode,         \* the search mode of each worker's interpreter, "none"
                      \* while the worker has no interpreter
  advertised,         \* worker's interpreter last said READY_TO_OFFLOAD
  timeoutSent,        \* rank 1 has sent TIMEOUT
  advertsLeft, offersLeft,
  prefixSends,        \* history: times prefix i was sent as START_PREFIX_TASK
  killSent,           \* history: KILL messages sent to each worker
  outstanding,        \* history: OFFLOAD requests sent minus OFFLOAD_RESP received
  taskState,          \* history: per worker, "never" sent a prefix task, "sent"
                      \* one, or "done" (FINISH emitted since the last one)
  bugSeen,            \* history: the master has received a BUG_FOUND
  timeoutSeen,        \* history: the master has received the TIMEOUT
  withdrawn           \* history: per worker, the last advertisement the master
                      \* processed from it was a NOT_READY_TO_OFFLOAD

config == <<num_cores, lb, phase1Depth, searchPolicy, pathSizes>>
mstate == <<mpc, cnt, freeList, busyList, offloadReadyList, offloadActiveList,
            offloadActive, collectX, outcome>>
chans == <<toMaster, toWorker>>
wvars == <<wstate, searchMode, advertised, advertsLeft, offersLeft>>
hist == <<prefixSends, killSent, outstanding, taskState, bugSeen, timeoutSeen,
          withdrawn>>
vars == <<config, mstate, chans, wvars, timeoutSent, hist>>

Workers == FirstWorker .. (num_cores - 1)
W == num_cores - 2
K == Len(pathSizes)

\* ---------------------------------------------------------------- helpers
Contains(s, x) == \E i \in 1..Len(s) : s[i] = x

\* position of the first occurrence of x in s, 0 when absent
FirstIndex(s, x) ==
  IF Contains(s, x) THEN CHOOSE i \in 1..Len(s) : s[i] = x /\ \A j \in 1..(i-1) : s[j] # x
  ELSE 0

RemoveAt(s, i) == SubSeq(s, 1, i-1) \o SubSeq(s, i+1, Len(s))

\* the "for (it...) if (*it == x) { erase(it); break; }" idiom
EraseFirst(s, x) == IF Contains(s, x) THEN RemoveAt(s, FirstIndex(s, x)) ELSE s

Msg(t, c, d) == [tag |-> t, count |-> c, data |-> d]
Dummy(t) == Msg(t, 1, <<"dummy">>)

Send(ch, dst, m) == [ch EXCEPT ![dst] = Append(@, m)]

\* for(int x=2; x<num_cores; ++x) MPI_Send(&dummy, 1, MPI_CHAR, x, KILL, ...)
KillAll(tw) == [x \in DOMAIN tw |-> Append(tw[x], Dummy(KILL))]

Stopped == mpc \in {"aborted", "assert_failed"}


\* prefix i of the phase-1 work list, as the bytes of a START_PREFIX_TASK
WorkItem(i) == Msg(START_PREFIX_TASK, pathSizes[i], <<"phase1", i>>)

\* what a master step appended to the channel of worker r
Appended(old, new, r) == SubSeq(new[r], Len(old[r]) + 1, Len(new[r]))

CountTag(old, new, r, t) ==
  Cardinality({j \in 1..Len(Appended(old, new, r)) : Appended(old, new, r)[j].tag = t})

SentPrefixTo(old, new, r, i) ==
  \E j \in 1..Len(Appended(old, new, r)) :
     /\ Appended(old, new, r)[j].tag = START_PREFIX_TASK
     /\ Appended(old, new, r)[j].data = <<"phase1", i>>

SumOver(f, S) ==
  LET RECURSIVE Sum(_)
      Sum(T) == IF T = {} THEN 0 ELSE LET x == CHOOSE y \in T : TRUE IN f[x] + Sum(T \ {x})
  IN Sum(S)

\* OFFLOAD requests a master step has sent
OffloadsSent(old, new) ==
  SumOver([r \in Workers |-> CountTag(old, new, r, OFFLOAD)], Workers)

\* the history variables, read off the messages a master step has sent
MasterHist(old, new) ==
  /\ prefixSends' = [i \in 1..K |->
        prefixSends[i] + Cardinality({r \in Workers : SentPrefixTo(old, new, r, i)})]
  /\ killSent' = [r \in Workers |-> killSent[r] + CountTag(old, new, r, KILL)]
  /\ taskState' = [r \in Workers |->
        IF CountTag(old, new, r, START_PREFIX_TASK) > 0 THEN "sent" ELSE taskState[r]]

\* -------------------------------------------------------------------- Init
InitFor(cores, policies) ==
  /\ num_cores \in cores
  /\ searchPolicy \in policies
  /\ lb \in BOOLEAN
  /\ phase1Depth \in {0, ShortLen}
  /\ \E k \in 0..MaxPaths :
       pathSizes = IF phase1Depth = 0 THEN << >> ELSE [i \in 1..k |-> phase1Depth]
  /\ mpc = "start"
  /\ cnt = 0
  /\ freeList = << >> /\ busyList = << >>
  /\ offloadReadyList = << >> /\ offloadActiveList = << >>
  /\ offloadActive = FALSE
  /\ collectX = FirstWorker
  /\ outcome = "none"
  /\ toMaster = [s \in 1..(num_cores - 1) |-> << >>]
  /\ toWorker = [r \in Workers |-> << >>]
  /\ wstate = [r \in Workers |-> "idle"]
  /\ searchMode = [r \in Workers |-> "none"]
  /\ advertised = [r \in Workers |-> FALSE]
  /\ timeoutSent = FALSE
  /\ advertsLeft = MaxAdverts
  /\ offersLeft = MaxOffers
  /\ prefixSends = [i \in 1..K |-> 0]
  /\ killSent = [r \in Workers |-> 0]
  /\ outstanding = 0
  /\ taskState = [r \in Workers |-> "never"]
  /\ bugSeen = FALSE
  /\ timeoutSeen = FALSE
  /\ withdrawn = [r \in Workers |-> FALSE]

\* the runs with the search policy left at its default, cl::init("DFS")
InitWith(cores) == InitFor(cores, {"DFS"})

\* every run of at most MaxCores processes
Init == InitWith(3..MaxCores)

\* the runs in which three workers share StealPaths prefixes with load
\* balancing on, and every run of three processes (one worker)
StealInit ==
  /\ InitWith({3, StealCores})
  /\ num_cores = StealCores => (lb /\ phase1Depth # 0 /\ K = StealPaths)

\* ------------------------------------------------------ rank 1: the sentinel
\* variant: the sentinel sends TIMEOUT again and again
timeOutCheckRepeats ==
  /\ ~Stopped
  /\ Len(toMaster[1]) < 2
  /\ timeoutSent' = TRUE
  /\ toMaster' = Send(toMaster, 1, Dummy(TIMEOUT))
  /\ UNCHANGED <<config, mstate, toWorker, wvars, hist>>

\* timeOutCheck(): sleep, then one MPI_Send(TIMEOUT) to rank 0
timeOutCheck ==
  /\ ~Stopped
  /\ ~timeoutSent
  /\ timeoutSent' = TRUE
  /\ toMaster' = Send(toMaster, 1, Dummy(TIMEOUT))
  /\ UNCHANGED <<config, mstate, toWorker, wvars, hist>>

\* --------------------------------------------------------- rank 0: master
\* whileCnt = (num_cores-2) < pathSizes.size() ? num_cores-2 : pathSizes.size()
whileCnt == IF W < K THEN W ELSE K

\* variant: the surplus ranks are sent KILL whatever lb is
SeedToWorkerAlwaysKill(tw) ==
  [r \in DOMAIN tw |->
     IF r - FirstWorker < whileCnt THEN Append(tw[r], WorkItem(r - FirstWorker + 1))
     ELSE Append(tw[r], Dummy(KILL))]

\* the seeding loops of master(): ranks 2..2+whileCnt-1 get a prefix and are
\* pushed on busyList; the remaining ranks are pushed on freeList, after a
\* KILL when lb is off
SeedToWorker(tw) ==
  [r \in DOMAIN tw |->
     IF r - FirstWorker < whileCnt THEN Append(tw[r], WorkItem(r - FirstWorker + 1))
     ELSE IF ~lb THEN Append(tw[r], Dummy(KILL)) ELSE tw[r]]

SeedBusy == [i \in 1..whileCnt |-> FirstWorker + i - 1]

SeedFree == [i \in 1..(W - whileCnt) |-> FirstWorker + whileCnt + i - 1]

\* master() with phase1Depth == 0: one NORMAL_TASK to rank 2
MasterStartNormal ==
  /\ mpc = "start" /\ phase1Depth = 0
  /\ toWorker' = Send(toWorker, FirstWorker, Dummy(NORMAL_TASK))
  /\ MasterHist(toWorker, toWorker')
  /\ mpc' = "normal_recv"
  /\ UNCHANGED <<config, cnt, freeList, busyList, offloadReadyList, offloadActiveList,
                 offloadActive, collectX, outcome, toMaster, wvars, timeoutSent,
                 outstanding, bugSeen, timeoutSeen, withdrawn>>

\* master() with phase1Depth > 0: phase 1 has produced pathSizes; seed
MasterSeed ==
  /\ mpc = "start" /\ phase1Depth # 0
  /\ toWorker' = SeedToWorker(toWorker)
  /\ busyList' = SeedBusy
  /\ freeList' = SeedFree
  /\ cnt' = whileCnt
  /\ MasterHist(toWorker, toWorker')
  /\ mpc' = IF whileCnt < K THEN "loop1" ELSE "loop2"
  /\ UNCHANGED <<config, offloadReadyList, offloadActiveList, offloadActive, collectX,
                 outcome, toMaster, wvars, timeoutSent, outstanding, bugSeen,
                 timeoutSeen, withdrawn>>


\* the list state of the master and its outgoing channels, as one value
MS == [free |-> freeList, busy |-> busyList, ready |-> offloadReadyList,
       active |-> offloadActiveList, flag |-> offloadActive, tw |-> toWorker]

\* assign the master's lists from such a value
SetMS(ms) ==
  /\ freeList' = ms.free
  /\ busyList' = ms.busy
  /\ offloadReadyList' = ms.ready
  /\ offloadActiveList' = ms.active
  /\ offloadActive' = ms.flag
  /\ toWorker' = ms.tw
  /\ MasterHist(toWorker, ms.tw)

\* MPI_Recv(MPI_ANY_SOURCE, MPI_ANY_TAG): the oldest message of some sender
CanRecv(s) == s \in DOMAIN toMaster /\ Len(toMaster[s]) > 0
Head1(s) == Head(toMaster[s])
Consume(s) == [toMaster EXCEPT ![s] = Tail(@)]

\* the history of the tags received
Seen(m) ==
  /\ bugSeen' = (bugSeen \/ m.tag = BUG_FOUND)
  /\ timeoutSeen' = (timeoutSeen \/ m.tag = TIMEOUT)

\* the history of the advertisements processed by the two loops
Advert(m, s) ==
  withdrawn' = IF m.tag = NOT_READY_TO_OFFLOAD THEN [withdrawn EXCEPT ![s] = TRUE]
               ELSE IF m.tag = READY_TO_OFFLOAD THEN [withdrawn EXCEPT ![s] = FALSE]
               ELSE withdrawn

\* MPI_Recv(source x, tag KILL_COMP): the oldest KILL_COMP of x, whatever
\* else x has sent before it
HasKillComp(x) == \E j \in 1..Len(toMaster[x]) : toMaster[x][j].tag = KILL_COMP
FirstKillComp(x) ==
  CHOOSE j \in 1..Len(toMaster[x]) :
     /\ toMaster[x][j].tag = KILL_COMP
     /\ \A h \in 1..(j-1) : toMaster[x][h].tag # KILL_COMP
ConsumeKillComp(x) == [toMaster EXCEPT ![x] = RemoveAt(@, FirstKillComp(x))]

\* ---- phase1Depth == 0: the master waits for one message
MasterNormalRecv ==
  /\ mpc = "normal_recv"
  /\ \E s \in DOMAIN toMaster :
       /\ CanRecv(s)
       /\ toMaster' = Consume(s)
       /\ Seen(Head1(s))
       /\ IF Head1(s).tag = FINISH
            THEN /\ toWorker' = Send(toWorker, FirstWorker, Dummy(KILL))
                 /\ mpc' = "normal_kill"
                 /\ outcome' = "normal"
          ELSE IF Head1(s).tag = TIMEOUT
            THEN /\ toWorker' = toWorker
                 /\ mpc' = "aborted"
                 /\ outcome' = "timeout"
          ELSE IF Head1(s).tag = BUG_FOUND
            THEN /\ toWorker' = toWorker
                 /\ mpc' = "aborted"
                 /\ outcome' = "bug"
          ELSE   /\ toWorker' = toWorker
                 /\ mpc' = "returned"
                 /\ outcome' = outcome
  /\ MasterHist(toWorker, toWorker')
  /\ UNCHANGED <<config, cnt, freeList, busyList, offloadReadyList, offloadActiveList,
                 offloadActive, collectX, wvars, timeoutSent, outstanding, withdrawn>>

\* variant: the sender is not pushed back on busyList
Finish1NoRequeue(ms, s) ==
  [ms EXCEPT !.busy = EraseFirst(@, s),
             !.active = EraseFirst(@, s),
             !.tw = Send(@, s, WorkItem(cnt + 1))]

\* ---- first loop: while (cnt < pathSizes.size())
\* FINISH: erase the sender from busyList and offloadActiveList, send it
\* workList[cnt], push it on busyList
Finish1(ms, s) ==
  [ms EXCEPT !.busy = Append(EraseFirst(@, s), s),
             !.active = EraseFirst(@, s),
             !.tw = Send(@, s, WorkItem(cnt + 1))]

\* BUG_FOUND: KILL to every worker; the loop goes on
Bug1(ms) == [ms EXCEPT !.tw = KillAll(@)]

ReadyToOffload(ms, s) == [ms EXCEPT !.ready = Append(@, s)]

NotReadyToOffload(ms, s) == [ms EXCEPT !.ready = EraseFirst(@, s)]

Loop1Tags == {FINISH, BUG_FOUND, READY_TO_OFFLOAD, NOT_READY_TO_OFFLOAD}

\* assert(found2Erase) of the first loop, and assert(ok && "illegal tag")
Loop1AssertOk(t, s) ==
  /\ t \in Loop1Tags
  /\ t = NOT_READY_TO_OFFLOAD => Contains(offloadReadyList, s)

Loop1Handle(t, s) ==
  IF t = FINISH THEN Finish1(MS, s)
  ELSE IF t = BUG_FOUND THEN Bug1(MS)
  ELSE IF t = READY_TO_OFFLOAD THEN ReadyToOffload(MS, s)
  ELSE IF t = NOT_READY_TO_OFFLOAD THEN NotReadyToOffload(MS, s)
  ELSE MS

\* variant: the FINISH branch forgets cnt++
Cnt1NoIncrement(t) == cnt

\* variant: every message of the first loop counts as a prefix sent
Cnt1CountsEveryMessage(t) == cnt + 1

Cnt1(t) == IF t = FINISH THEN cnt + 1 ELSE cnt

MasterLoop1 ==
  /\ mpc = "loop1"
  /\ \E s \in DOMAIN toMaster :
       /\ CanRecv(s)
       /\ toMaster' = Consume(s)
       /\ Seen(Head1(s))
       /\ Advert(Head1(s), s)
       /\ SetMS(Loop1Handle(Head1(s).tag, s))
       /\ cnt' = Cnt1(Head1(s).tag)
       /\ mpc' = IF ~Loop1AssertOk(Head1(s).tag, s) THEN "assert_failed"
                 ELSE IF cnt' < K THEN "loop1" ELSE "loop2"
       /\ outcome' = IF Head1(s).tag = BUG_FOUND THEN "bug" ELSE outcome
  /\ UNCHANGED <<config, collectX, wvars, timeoutSent, outstanding>>

\* variant: the FINISH of the second loop leaves the sender on busyList
Finish2KeepsBusy(ms, s) ==
  [ms EXCEPT !.free = IF Contains(@, s) THEN @ ELSE Append(@, s),
             !.active = EraseFirst(@, s),
             !.flag = IF Contains(ms.active, s) THEN FALSE ELSE @,
             !.ready = EraseFirst(@, s)]

\* ---- second loop: while (true) { MPI_Iprobe ...; steal trigger }
\* variant: the FINISH of the steal target leaves offloadActive set
Finish2KeepsFlag(ms, s) ==
  [ms EXCEPT !.free = IF Contains(@, s) THEN @ ELSE Append(@, s),
             !.busy = EraseFirst(@, s),
             !.active = EraseFirst(@, s),
             !.ready = EraseFirst(@, s)]

\* FINISH of the second loop, up to the all-finished test
Finish2(ms, s) ==
  [ms EXCEPT !.free = IF Contains(@, s) THEN @ ELSE Append(@, s),
             !.busy = EraseFirst(@, s),
             !.active = EraseFirst(@, s),
             !.flag = IF Contains(ms.active, s) THEN FALSE ELSE @,
             !.ready = EraseFirst(@, s)]

\* variant: the all-finished test is off by one
AllFinishedOffByOne(ms) == Len(ms.free) >= W - 1

\* if (freeList.size() == (num_cores-2))
AllFinished(ms) == Len(ms.free) = W

\* variant: the stolen prefix is dispatched without freeList.pop_front()
OffloadRespNoPop(ms, s, m) ==
  IF m.count > EmptyOfferThreshold /\ Len(ms.free) > 0
  THEN [ms EXCEPT !.active = EraseFirst(@, s),
                  !.tw = Send(@, Head(ms.free), Msg(START_PREFIX_TASK, m.count, m.data)),
                  !.busy = Append(@, Head(ms.free)),
                  !.flag = FALSE]
  ELSE [ms EXCEPT !.active = EraseFirst(@, s), !.flag = FALSE]

\* variant: the prefix task sent to the free worker does not carry the
\* bytes received
OffloadRespOtherBytes(ms, s, m) ==
  IF m.count > EmptyOfferThreshold /\ Len(ms.free) > 0
  THEN [ms EXCEPT !.active = EraseFirst(@, s),
                  !.tw = Send(@, Head(ms.free), Msg(START_PREFIX_TASK, m.count, <<"dummy">>)),
                  !.busy = Append(@, Head(ms.free)),
                  !.free = Tail(@),
                  !.flag = FALSE]
  ELSE [ms EXCEPT !.active = EraseFirst(@, s), !.flag = FALSE]

\* variant: every payload longer than the one-byte packet is dispatched
OffloadRespAnyPrefix(ms, s, m) ==
  IF m.count > 1 /\ Len(ms.free) > 0
  THEN [ms EXCEPT !.active = EraseFirst(@, s),
                  !.tw = Send(@, Head(ms.free), Msg(START_PREFIX_TASK, m.count, m.data)),
                  !.busy = Append(@, Head(ms.free)),
                  !.free = Tail(@),
                  !.flag = FALSE]
  ELSE [ms EXCEPT !.active = EraseFirst(@, s), !.flag = FALSE]

\* OFFLOAD_RESP: erase the sender from offloadActiveList; a payload of more
\* than 4 bytes goes to freeList.front(), which moves to busyList
OffloadResp(ms, s, m) ==
  IF m.count > EmptyOfferThreshold /\ Len(ms.free) > 0
  THEN [ms EXCEPT !.active = EraseFirst(@, s),
                  !.tw = Send(@, Head(ms.free), Msg(START_PREFIX_TASK, m.count, m.data)),
                  !.busy = Append(@, Head(ms.free)),
                  !.free = Tail(@),
                  !.flag = FALSE]
  ELSE [ms EXCEPT !.active = EraseFirst(@, s), !.flag = FALSE]

\* assert(freeList.size() > 0) of the OFFLOAD_RESP handler
OffloadRespAssertOk(ms, m) == m.count > EmptyOfferThreshold => Len(ms.free) > 0

\* the oldest rank of offloadReadyList that is not in offloadActiveList
Candidates(ms) == {i \in 1..Len(ms.ready) : ~Contains(ms.active, ms.ready[i])}

worker2offload(ms) ==
  ms.ready[CHOOSE i \in Candidates(ms) : \A j \in Candidates(ms) : i <= j]

\* variant: the guard does not look at the offloadActive flag
StealGuardIgnoresFlag(ms) ==
  /\ lb
  /\ Len(ms.free) > 0
  /\ Len(ms.free) < W
  /\ Len(ms.ready) > 0

\* if (lb && freeList.size()>0 && freeList.size()<(num_cores-2)
\*     && offloadReadyList.size()>0 && !offloadActive)
StealGuard(ms) ==
  /\ lb
  /\ Len(ms.free) > 0
  /\ Len(ms.free) < W
  /\ Len(ms.ready) > 0
  /\ ~ms.flag

StealTrigger(ms) ==
  IF StealGuard(ms) /\ Candidates(ms) # {}
  THEN [ms EXCEPT !.active = Append(@, worker2offload(ms)),
                  !.tw = Send(@, worker2offload(ms), Dummy(OFFLOAD)),
                  !.flag = TRUE]
  ELSE ms

Loop2Tags == {BUG_FOUND, FINISH, TIMEOUT, READY_TO_OFFLOAD, NOT_READY_TO_OFFLOAD,
              OFFLOAD_RESP}

Loop2Handle(m, s) ==
  IF m.tag = FINISH THEN Finish2(MS, s)
  ELSE IF m.tag = READY_TO_OFFLOAD THEN ReadyToOffload(MS, s)
  ELSE IF m.tag = NOT_READY_TO_OFFLOAD THEN NotReadyToOffload(MS, s)
  ELSE IF m.tag = OFFLOAD_RESP THEN OffloadResp(MS, s, m)
  ELSE MS

\* where the handler of the second loop leaves the master
Loop2Next(m, s) ==
  IF m.tag = BUG_FOUND THEN "aborted"
  ELSE IF m.tag = FINISH THEN (IF AllFinished(Finish2(MS, s)) THEN "collect" ELSE "loop2")
  ELSE IF m.tag = TIMEOUT THEN "collect"
  ELSE IF m.tag = OFFLOAD_RESP
       THEN (IF OffloadRespAssertOk(MS, m) THEN "loop2" ELSE "assert_failed")
  ELSE IF m.tag \in Loop2Tags THEN "loop2"
  ELSE "assert_failed"

Loop2Outcome(m, s) ==
  IF m.tag = BUG_FOUND THEN "bug"
  ELSE IF m.tag = TIMEOUT THEN "timeout"
  ELSE IF m.tag = FINISH /\ AllFinished(Finish2(MS, s)) THEN "finished"
  ELSE outcome

\* the master's lists after one iteration that received m from s
Loop2After(m, s) ==
  IF Loop2Next(m, s) = "collect" THEN [Loop2Handle(m, s) EXCEPT !.tw = KillAll(@)]
  ELSE IF Loop2Next(m, s) = "loop2" THEN StealTrigger(Loop2Handle(m, s))
  ELSE IF Loop2Next(m, s) = "assert_failed" /\ m.tag = OFFLOAD_RESP
       THEN [MS EXCEPT !.active = EraseFirst(@, s)]
  ELSE MS

\* one iteration in which MPI_Iprobe found a message.  An iteration in which
\* it found none runs the steal trigger alone, which then changes nothing
\* (IdleIterationIsNoOp below): it is not a step of its own.
MasterLoop2Recv ==
  /\ mpc = "loop2"
  /\ \E s \in DOMAIN toMaster :
       /\ CanRecv(s)
       /\ toMaster' = Consume(s)
       /\ Seen(Head1(s))
       /\ Advert(Head1(s), s)
       /\ SetMS(Loop2After(Head1(s), s))
       /\ mpc' = Loop2Next(Head1(s), s)
       /\ outcome' = Loop2Outcome(Head1(s), s)
       /\ outstanding' = outstanding + OffloadsSent(toWorker, toWorker')
                          - (IF Head1(s).tag = OFFLOAD_RESP THEN 1 ELSE 0)
  /\ collectX' = FirstWorker
  /\ UNCHANGED <<config, cnt, wvars, timeoutSent>>

\* the KILL_COMP receives that precede MPI_Abort:
\*   second loop:      for (x = 2; x < num_cores; ++x) MPI_Recv(x, KILL_COMP)
\*   phase1Depth == 0: MPI_Recv(2, KILL_COMP)
CollectEnd == IF mpc = "normal_kill" THEN FirstWorker + 1 ELSE num_cores

MasterCollect ==
  /\ mpc \in {"collect", "normal_kill"}
  /\ HasKillComp(collectX)
  /\ toMaster' = ConsumeKillComp(collectX)
  /\ collectX' = collectX + 1
  /\ mpc' = IF collectX + 1 < CollectEnd THEN mpc ELSE "aborted"
  /\ UNCHANGED <<config, cnt, freeList, busyList, offloadReadyList, offloadActiveList,
                 offloadActive, outcome, toWorker, wvars, timeoutSent, hist>>

\* an iteration of the second loop without a message would change nothing
IdleIterationIsNoOp == mpc = "loop2" => StealTrigger(MS) = MS

\* ------------------------------------------------------ ranks 2..N-1: worker
\* packet2send.push_back('x'): the one-byte empty offer
EmptyOffer == Msg(OFFLOAD_RESP, 1, <<"x">>)

\* one iteration of the loop of worker(): MPI_Probe(0, MPI_ANY_TAG), then by tag
\*   KILL               receive it and return (nothing is sent)
\*   START_PREFIX_TASK  executeWorker(PREFIX_MODE)
\*   NORMAL_TASK        executeWorker(NO_MODE)
\*   OFFLOAD            reply OFFLOAD_RESP with the one-byte packet
\* a message with any other tag is not received
WorkerTags == {KILL, START_PREFIX_TASK, NORMAL_TASK, OFFLOAD}

\* variant: the configured name is handed on as it is
getNewSearchAsConfigured(policy) == policy

\* getNewSearch(): the configured name when it is one of the four policies,
\* "DFS" otherwise
getNewSearch(policy) ==
  IF policy = "BFS" THEN "BFS"
  ELSE IF policy = "DFS" THEN "DFS"
  ELSE IF policy = "RAND" THEN "RAND"
  ELSE IF policy = "COVNEW" THEN "COVNEW"
  ELSE "DFS"

\* the search mode executeWorker() hands to interpreter->setSearchMode
workerSearch(t) ==
  IF t \in {START_PREFIX_TASK, NORMAL_TASK} THEN getNewSearch(searchPolicy) ELSE "none"

workerNext(t) ==
  IF t = KILL THEN "exited"
  ELSE IF t = START_PREFIX_TASK THEN "explore"
  ELSE IF t = NORMAL_TASK THEN "normal"
  ELSE "idle"

worker(r) ==
  /\ ~Stopped
  /\ wstate[r] = "idle"
  /\ Len(toWorker[r]) > 0
  /\ Head(toWorker[r]).tag \in WorkerTags
  /\ toWorker' = [toWorker EXCEPT ![r] = Tail(@)]
  /\ wstate' = [wstate EXCEPT ![r] = workerNext(Head(toWorker[r]).tag)]
  /\ searchMode' = [searchMode EXCEPT ![r] = workerSearch(Head(toWorker[r]).tag)]
  /\ advertised' = [advertised EXCEPT ![r] = FALSE]
  /\ toMaster' = IF Head(toWorker[r]).tag = OFFLOAD THEN Send(toMaster, r, EmptyOffer)
                 ELSE toMaster
  /\ UNCHANGED <<config, mstate, advertsLeft, offersLeft, timeoutSent, hist>>

\* variant: line 2091 in place of line 2092, FINISH when executeWorker returns
AfterPrefixTaskSendsFinish(tm, r) == Send(tm, r, Dummy(FINISH))

\* what worker() does when executeWorker(PREFIX_MODE) returns:
\* MPI_Send(KILL_COMP) and return
AfterPrefixTask(tm, r) == Send(tm, r, Dummy(KILL_COMP))

\* what worker() does when executeWorker(NO_MODE) returns: MPI_Send(FINISH)
AfterNormalTask(tm, r) == Send(tm, r, Dummy(FINISH))

\* ---- the interpreter inside executeWorker (runFunctionAsMain2)
Running(r) == wstate[r] \in {"explore", "normal"}

\* the frontier gets a stealable node
InterpReady(r) ==
  /\ ~Stopped
  /\ lb /\ Running(r) /\ ~advertised[r]
  /\ advertsLeft > 0
  /\ advertsLeft' = advertsLeft - 1
  /\ advertised' = [advertised EXCEPT ![r] = TRUE]
  /\ toMaster' = Send(toMaster, r, Dummy(READY_TO_OFFLOAD))
  /\ UNCHANGED <<config, mstate, toWorker, wstate, searchMode, offersLeft, timeoutSent,
                 hist>>

\* the frontier has no stealable node: the advertisement is withdrawn, or the
\* interpreter reports "not ready" without having advertised in this task
InterpNotReady(r) ==
  /\ ~Stopped
  /\ lb /\ Running(r)
  /\ advertised[r] \/ advertsLeft > 0
  /\ advertsLeft' = IF advertised[r] THEN advertsLeft ELSE advertsLeft - 1
  /\ advertised' = [advertised EXCEPT ![r] = FALSE]
  /\ toMaster' = Send(toMaster, r, Dummy(NOT_READY_TO_OFFLOAD))
  /\ UNCHANGED <<config, mstate, toWorker, wstate, searchMode, offersLeft, timeoutSent,
                 hist>>

\* bug detection
InterpBugFound(r) ==
  /\ ~Stopped
  /\ Running(r)
  /\ wstate' = [wstate EXCEPT ![r] = "halt"]
  /\ searchMode' = searchMode
  /\ toMaster' = Send(toMaster, r, Dummy(BUG_FOUND))
  /\ UNCHANGED <<config, mstate, toWorker, advertised, advertsLeft, offersLeft,
                 timeoutSent, hist>>

\* natural termination: a prefix task ends with FINISH from inside the
\* interpreter, which then waits for the master; a normal task ends with
\* executeWorker returning
InterpFinish(r) ==
  /\ ~Stopped
  /\ Running(r)
  /\ wstate' = [wstate EXCEPT ![r] = IF wstate[r] = "explore" THEN "wait" ELSE "idle"]
  /\ searchMode' = [searchMode EXCEPT ![r] = IF wstate[r] = "explore" THEN @ ELSE "none"]
  /\ toMaster' = IF wstate[r] = "explore" THEN Send(toMaster, r, Dummy(FINISH))
                 ELSE AfterNormalTask(toMaster, r)
  /\ taskState' = [taskState EXCEPT ![r] = IF @ = "sent" THEN "done" ELSE @]
  /\ UNCHANGED <<config, mstate, toWorker, advertised, advertsLeft, offersLeft,
                 timeoutSent, prefixSends, killSent, outstanding, bugSeen, timeoutSeen,
                 withdrawn>>

\* the offers an exploring interpreter can answer a steal request with
Offers(r) ==
  {EmptyOffer} \cup
  (IF offersLeft > 0
   THEN {Msg(OFFLOAD_RESP, n, <<"stolen", r>>) : n \in {ShortLen, LongLen}}
   ELSE {})

\* a message of the master reaches the interpreter of a prefix task
InterpKill(r) ==
  /\ ~Stopped
  /\ wstate[r] \in {"explore", "wait", "halt"}
  /\ Len(toWorker[r]) > 0 /\ Head(toWorker[r]).tag = KILL
  /\ toWorker' = [toWorker EXCEPT ![r] = Tail(@)]
  /\ wstate' = [wstate EXCEPT ![r] = "exited"]
  /\ searchMode' = [searchMode EXCEPT ![r] = "none"]
  /\ toMaster' = AfterPrefixTask(toMaster, r)
  /\ UNCHANGED <<config, mstate, advertised, advertsLeft, offersLeft, timeoutSent,
                 hist>>

InterpOffload(r) ==
  /\ ~Stopped
  /\ wstate[r] \in {"explore", "wait", "halt"}
  /\ Len(toWorker[r]) > 0 /\ Head(toWorker[r]).tag = OFFLOAD
  /\ toWorker' = [toWorker EXCEPT ![r] = Tail(@)]
  /\ \E m \in (IF wstate[r] = "explore" THEN Offers(r) ELSE {EmptyOffer}) :
       /\ toMaster' = Send(toMaster, r, m)
       /\ offersLeft' = IF m = EmptyOffer THEN offersLeft ELSE offersLeft - 1
  /\ UNCHANGED <<config, mstate, wstate, searchMode, advertised, advertsLeft, timeoutSent,
                 hist>>

InterpPrefixTask(r) ==
  /\ ~Stopped
  /\ wstate[r] = "wait"
  /\ Len(toWorker[r]) > 0 /\ Head(toWorker[r]).tag = START_PREFIX_TASK
  /\ toWorker' = [toWorker EXCEPT ![r] = Tail(@)]
  /\ wstate' = [wstate EXCEPT ![r] = "explore"]
  /\ searchMode' = searchMode
  /\ advertised' = [advertised EXCEPT ![r] = FALSE]
  /\ UNCHANGED <<config, mstate, toMaster, advertsLeft, offersLeft, timeoutSent, hist>>

\* -------------------------------------------------------------------- Next
Next ==
  \/ timeOutCheck
  \/ MasterStartNormal
  \/ MasterSeed
  \/ MasterNormalRecv
  \/ MasterLoop1
  \/ MasterLoop2Recv
  \/ MasterCollect
  \/ \E r \in Workers : worker(r)
  \/ \E r \in Workers : InterpReady(r)
  \/ \E r \in Workers : InterpNotReady(r)
  \/ \E r \in Workers : InterpBugFound(r)
  \/ \E r \in Workers : InterpFinish(r)
  \/ \E r \in Workers : InterpKill(r)
  \/ \E r \in Workers : InterpOffload(r)
  \/ \E r \in Workers : InterpPrefixTask(r)

Spec == Init /\ [][Next]_vars

StealSpec == StealInit /\ [][Next]_vars

\* ------------------------------------------------- a steal race, mid-run
\* Three workers and two prefixes with load balancing on, at the point where
\* rank 2 has finished while the OFFLOAD sent to it was still in flight: the
\* master has processed READY_TO_OFFLOAD of ranks 2 and 3, sent OFFLOAD to 2,
\* processed the FINISH of 2 and sent OFFLOAD to 3.  Rank 4 has had no task.
RaceStart ==
  /\ num_cores = FirstWorker + 3
  /\ lb = TRUE
  /\ phase1Depth = ShortLen
  /\ pathSizes = <<ShortLen, ShortLen>>
  /\ mpc = "loop2"
  /\ cnt = 2
  /\ freeList = <<FirstWorker + 2, FirstWorker>>
  /\ busyList = <<FirstWorker + 1>>
  /\ offloadReadyList = <<FirstWorker + 1>>
  /\ offloadActiveList = <<FirstWorker + 1>>
  /\ offloadActive = TRUE
  /\ collectX = FirstWorker
  /\ outcome = "none"
  /\ toMaster = [s \in 1..(num_cores - 1) |-> << >>]
  /\ toWorker = [r \in Workers |->
                   IF r = FirstWorker + 2 THEN << >> ELSE << Dummy(OFFLOAD) >>]
  /\ wstate = [r \in Workers |->
                 IF r = FirstWorker THEN "wait"
                 ELSE IF r = FirstWorker + 1 THEN "explore" ELSE "idle"]
  /\ searchPolicy = "DFS"
  /\ searchMode = [r \in Workers |-> IF wstate[r] = "idle" THEN "none" ELSE "DFS"]
  /\ advertised = [r \in Workers |-> r # FirstWorker + 2]
  /\ timeoutSent = FALSE
  /\ advertsLeft = MaxAdverts - 2
  /\ offersLeft = RaceOffers
  /\ prefixSends = [i \in 1..K |-> 1]
  /\ killSent = [r \in Workers |-> 0]
  /\ outstanding = 2
  /\ taskState = [r \in Workers |->
                    IF r = FirstWorker THEN "done"
                    ELSE IF r = FirstWorker + 1 THEN "sent" ELSE "never"]
  /\ bugSeen = FALSE
  /\ timeoutSeen = FALSE
  /\ withdrawn = [r \in Workers |-> FALSE]

\* the race above, and every run of three processes from its start
RaceInit == RaceStart \/ InitWith({3})

RaceSpec == RaceInit /\ [][Next]_vars

\* every process keeps running: the master and the sentinel take their next
\* step, a worker receives what is at the head of its channel, a task ends
Fairness ==
  /\ WF_vars(timeOutCheck)
  /\ WF_vars(MasterStartNormal) /\ WF_vars(MasterSeed)
  /\ WF_vars(MasterNormalRecv) /\ WF_vars(MasterLoop1)
  /\ WF_vars(MasterLoop2Recv) /\ WF_vars(MasterCollect)
  /\ \A r \in FirstWorker..(MaxCores - 1) :
        /\ WF_vars(r \in Workers /\ worker(r))
        /\ WF_vars(r \in Workers /\ InterpFinish(r))
        /\ WF_vars(r \in Workers /\ InterpKill(r))
        /\ WF_vars(r \in Workers /\ InterpOffload(r))
        /\ WF_vars(r \in Workers /\ InterpPrefixTask(r))

FairSpec == Init /\ [][Next]_vars /\ Fairness


\* ------------------------------------- a stale advertisement, mid-run
\* Two workers and MaxPaths prefixes with load balancing on, at the point
\* where the master leaves its first loop: rank 2 advertised during its first
\* task and finished it, the FINISH handler of the first loop sent it the
\* last prefix and left it on offloadReadyList; rank 3 is exploring its first
\* prefix and its READY_TO_OFFLOAD is in flight.
StaleStart ==
  /\ num_cores = FirstWorker + 2
  /\ lb = TRUE
  /\ phase1Depth = ShortLen
  /\ pathSizes = [i \in 1..MaxPaths |-> ShortLen]
  /\ mpc = "loop2"
  /\ cnt = MaxPaths
  /\ freeList = << >>
  /\ busyList = <<FirstWorker + 1, FirstWorker>>
  /\ offloadReadyList = <<FirstWorker>>
  /\ offloadActiveList = << >>
  /\ offloadActive = FALSE
  /\ collectX = FirstWorker
  /\ outcome = "none"
  /\ toMaster = [s \in 1..(num_cores - 1) |->
                   IF s = FirstWorker + 1 THEN << Dummy(READY_TO_OFFLOAD) >> ELSE << >>]
  /\ toWorker = [r \in Workers |->
                   IF r = FirstWorker THEN << WorkItem(MaxPaths) >> ELSE << >>]
  /\ wstate = [r \in Workers |-> IF r = FirstWorker THEN "wait" ELSE "explore"]
  /\ searchPolicy = "DFS"
  /\ searchMode = [r \in Workers |-> IF wstate[r] = "idle" THEN "none" ELSE "DFS"]
  /\ advertised = [r \in Workers |-> TRUE]
  /\ timeoutSent = FALSE
  /\ advertsLeft = MaxAdverts - 2
  /\ offersLeft = MaxOffers
  /\ prefixSends = [i \in 1..K |-> 1]
  /\ killSent = [r \in Workers |-> 0]
  /\ outstanding = 0
  /\ taskState = [r \in Workers |-> "sent"]
  /\ bugSeen = FALSE
  /\ timeoutSeen = FALSE
  /\ withdrawn = [r \in Workers |-> FALSE]

\* the run above, and every run of three processes from its start
StaleInit == StaleStart \/ InitWith({3})

\* ------------------------------- a stale advertisement with three workers
\* Three workers and one prefix more than workers, with load balancing on, at
\* the point where the master leaves its first loop: rank 2 advertised during
\* its first task and finished it, the FINISH handler of the first loop sent
\* it the last prefix and left it on offloadReadyList; ranks 3 and 4 are
\* exploring their first prefix.  Rank 2 had withdrawn a first advertisement.
RepeatStart ==
  /\ num_cores = FirstWorker + 3
  /\ lb = TRUE
  /\ phase1Depth = ShortLen
  /\ pathSizes = [i \in 1..(W + 1) |-> ShortLen]
  /\ mpc = "loop2"
  /\ cnt = W + 1
  /\ freeList = << >>
  /\ busyList = <<FirstWorker + 1, FirstWorker + 2, FirstWorker>>
  /\ offloadReadyList = <<FirstWorker>>
  /\ offloadActiveList = << >>
  /\ offloadActive = FALSE
  /\ collectX = FirstWorker
  /\ outcome = "none"
  /\ toMaster = [s \in 1..(num_cores - 1) |-> << >>]
  /\ toWorker = [r \in Workers |->
                   IF r = FirstWorker THEN << WorkItem(W + 1) >> ELSE << >>]
  /\ wstate = [r \in Workers |-> IF r = FirstWorker THEN "wait" ELSE "explore"]
  /\ searchPolicy = "DFS"
  /\ searchMode = [r \in Workers |-> IF wstate[r] = "idle" THEN "none" ELSE "DFS"]
  /\ advertised = [r \in Workers |-> r = FirstWorker]
  /\ timeoutSent = FALSE
  /\ advertsLeft = MaxAdverts - 2
  /\ offersLeft = MaxOffers
  /\ prefixSends = [i \in 1..K |-> 1]
  /\ killSent = [r \in Workers |-> 0]
  /\ outstanding = 0
  /\ taskState = [r \in Workers |-> "sent"]
  /\ bugSeen = FALSE
  /\ timeoutSeen = FALSE
  /\ withdrawn = [r \in Workers |-> FALSE]

\* the run above, and every run of three processes from its start
RepeatInit == RepeatStart \/ InitWith({3})

RepeatSpec == RepeatInit /\ [][Next]_vars

\* ------------------------------------------------ the search policy option
\* values of --searchPolicy: the four policy names, and names that are none
\* of them (another case, another searcher, the empty string)
Policies == {"DFS", "BFS", "RAND", "COVNEW", "dfs", "NURS", ""}

\* every run of three processes, and the runs of MaxCores processes with load
\* balancing on and one prefix, under every value of --searchPolicy
PolicyInit ==
  /\ InitFor({3, MaxCores}, Policies)
  /\ num_cores = MaxCores => (lb /\ phase1Depth # 0 /\ K = 1)

PolicySpec == PolicyInit /\ [][Next]_vars

\* the master keeps iterating and a worker receives what is at the head of
\* its channel; a task may run for any length of time, and so may the sleep
\* of the sentinel
StealFairness ==
  /\ WF_vars(MasterStartNormal) /\ WF_vars(MasterSeed)
  /\ WF_vars(MasterNormalRecv) /\ WF_vars(MasterLoop1)
  /\ WF_vars(MasterLoop2Recv) /\ WF_vars(MasterCollect)
  /\ \A r \in FirstWorker..(MaxCores - 1) :
        /\ WF_vars(r \in Workers /\ worker(r))
        /\ WF_vars(r \in Workers /\ InterpKill(r))
        /\ WF_vars(r \in Workers /\ InterpOffload(r))
        /\ WF_vars(r \in Workers /\ InterpPrefixTask(r))

StaleFairSpec == StaleInit /\ [][Next]_vars /\ StealFairness


\* ------------------------------------------------------------------ claims
\* the master has started the all-finished shutdown
ShutdownStarted == mpc \in {"collect", "aborted"} /\ outcome = "finished"

\* C1: every phase-1 prefix is sent as a START_PREFIX_TASK at most once, the
\* prefixes sent are exactly the first cnt of the work list, and when the
\* master starts the all-finished shutdown each prefix has been sent exactly
\* once.
C1_Partition ==
  /\ \A i \in 1..K : prefixSends[i] = (IF i <= cnt THEN 1 ELSE 0)
  /\ ShutdownStarted => \A i \in 1..K : prefixSends[i] = 1

\* a run with more prefixes than workers that ended by all-finished
C1_Witness == ShutdownStarted /\ K > W /\ \A i \in 1..K : prefixSends[i] = 1

\* C2: offloadActiveList never holds more than one rank.
C2_AtMostOneActive == Len(offloadActiveList) <= 1

\* C3: at most one OFFLOAD request has been sent whose OFFLOAD_RESP the master
\* has not received.
C3_AtMostOneSteal == outstanding <= 1

\* this step starts the all-finished shutdown
StartsShutdown == mpc = "loop2" /\ mpc' = "collect" /\ outcome' = "finished"

\* this step is the master receiving a FINISH in the second loop
ReceivesFinish2 ==
  /\ mpc = "loop2"
  /\ \E s \in DOMAIN toMaster :
       CanRecv(s) /\ Head1(s).tag = FINISH /\ toMaster' = Consume(s)

C5_FirstBugPriority == bugSeen ~> (mpc = "aborted" /\ outcome = "bug")

\* C6: once the master, in a run with phase 1, has received a BUG_FOUND it
\* has sent KILL to every worker and has aborted with the bug reported.
C6_BugShortCircuit ==
  (bugSeen /\ phase1Depth # 0) =>
     (mpc = "aborted" /\ outcome = "bug" /\ \A r \in Workers : killSent[r] >= 1)

\* C7: once the master has received the TIMEOUT, at any point of the run, it
\* is shutting down with timeout status.
C7_TimeoutPriority ==
  timeoutSeen => (mpc \in {"collect", "aborted"} /\ outcome = "timeout")

\* C8: once the master has received the TIMEOUT, in whatever mode, it has
\* sent KILL to every worker, and it aborts only after it has received a
\* KILL_COMP from every worker.
C8_TimeoutKillCollectAbort ==
  timeoutSeen =>
     /\ \A r \in Workers : killSent[r] >= 1
     /\ mpc = "aborted" => collectX = num_cores

\* C9: once the master has started the all-finished shutdown it eventually
\* aborts.
C9_ShutdownCompletes == (mpc = "collect" /\ outcome = "finished") ~> (mpc = "aborted")

\* C10: in a run without phase 1 no prefix task is ever sent, and after the
\* FINISH of rank 2 (the master has sent it KILL and waits for its KILL_COMP)
\* the master eventually aborts.
C10_DegenerateRun ==
  /\ [](phase1Depth = 0 => \A r \in Workers : taskState[r] = "never")
  /\ (phase1Depth = 0 /\ mpc = "normal_kill") ~> (mpc = "aborted")

\* the ranks held by a list of the master
Ranks(s) == {s[i] : i \in 1..Len(s)}

\* a stolen prefix is in flight to, or has been received by, worker r
GotStolen(r) ==
  /\ taskState[r] # "never"
  /\ r - FirstWorker >= whileCnt

\* C11: no worker rank is on freeList and on busyList at the same time.
C11_FreeBusyDisjoint == Ranks(freeList) \cap Ranks(busyList) = {}

\* a worker seeded free is busy with a stolen prefix while another is free
C11_Witness ==
  /\ mpc = "loop2"
  /\ \E r \in Ranks(busyList) : GotStolen(r)
  /\ freeList # << >>

\* the master is at the top of one of its two receive loops
InEventLoop == mpc \in {"loop1", "loop2"}

\* C12: while the master is in its event loop every rank on offloadReadyList
\* is on busyList.
C12_ReadySubsetBusy == InEventLoop => Ranks(offloadReadyList) \subseteq Ranks(busyList)

\* C13: while the master is in its event loop every rank on offloadActiveList
\* is on offloadReadyList.
C13_ActiveSubsetReady ==
  InEventLoop => Ranks(offloadActiveList) \subseteq Ranks(offloadReadyList)

\* C14: while the master is in its event loop, a non-empty offloadActiveList
\* implies that the offloadActive flag is set.
C14_ActiveImpliesFlag == (InEventLoop /\ offloadActiveList # << >>) => offloadActive

\* this step is the seeding of the workers
SeedingStep == mpc = "start" /\ mpc' \in {"loop1", "loop2"}

\* min(W, K)
MinWK == IF K < W THEN K ELSE W

\* C15: seeding sends prefix i (counted from 0, in phase-1 order) to rank 2+i
\* for i < min(W, K) and nothing else, and puts these ranks on busyList in
\* rank order; every other worker goes on freeList, in rank order, and is
\* sent exactly a KILL when lb is off and nothing when lb is on.
C15_Seeding ==
  [][SeedingStep =>
       /\ busyList' = [i \in 1..MinWK |-> FirstWorker + i - 1]
       /\ freeList' = [i \in 1..(W - MinWK) |-> FirstWorker + MinWK + i - 1]
       /\ \A r \in Workers :
            Appended(toWorker, toWorker', r) =
              IF r - FirstWorker < MinWK
                THEN << Msg(START_PREFIX_TASK, pathSizes[r - FirstWorker + 1],
                            <<"phase1", r - FirstWorker + 1>>) >>
              ELSE IF lb THEN << >>
              ELSE << Dummy(KILL) >>]_vars

\* seeding with fewer prefixes than workers and lb off has just happened
C15_Witness ==
  /\ mpc = "loop2" /\ ~lb /\ K >= 1 /\ K < W
  /\ busyList = [i \in 1..K |-> FirstWorker + i - 1]
  /\ \A r \in Workers : r - FirstWorker >= K =>
        (killSent[r] = 1 /\ Contains(freeList, r) /\ wstate[r] = "idle")
  /\ \A r \in Workers : r - FirstWorker < K => toWorker[r] # << >>

\* this step is the master, in one of its loops, receiving a FINISH from s
FinishStep(s) ==
  /\ InEventLoop
  /\ CanRecv(s) /\ Head1(s).tag = FINISH
  /\ toMaster' = Consume(s)

\* what the claim says of a FINISH received while a prefix is pending: the
\* oldest prefix not sent yet, and nothing else, goes to s, which stays busy
DispatchesNext(s) ==
  /\ Appended(toWorker, toWorker', s) = << WorkItem(cnt + 1) >>
  /\ \A i \in 1..K : prefixSends[i] = (IF i <= cnt THEN 1 ELSE 0)
  /\ \A r \in Workers \ {s} : Appended(toWorker, toWorker', r) = << >>
  /\ Contains(busyList', s) /\ ~Contains(freeList', s)

C17_FinishClearsOffload ==
  [][\A s \in Workers : FinishStep(s) =>
        (~Contains(offloadReadyList', s) /\ ~Contains(offloadActiveList', s))]_vars

\* this step is the master, in one of its loops, receiving a
\* READY_TO_OFFLOAD from s
ReadyStep(s) ==
  /\ InEventLoop
  /\ CanRecv(s) /\ Head1(s).tag = READY_TO_OFFLOAD
  /\ toMaster' = Consume(s)

\* number of occurrences of x in s
Occurrences(s, x) == Cardinality({i \in 1..Len(s) : s[i] = x})

\* C18: a READY_TO_OFFLOAD from a rank that is already on offloadReadyList
\* leaves the list unchanged, and no rank occurs twice on offloadReadyList.
C18_ReadyIdempotent ==
  /\ [](\A r \in Workers : Occurrences(offloadReadyList, r) <= 1)
  /\ [][\A s \in Workers : (ReadyStep(s) /\ Contains(offloadReadyList, s)) =>
           offloadReadyList' = offloadReadyList]_vars

\* this step is the master, in one of its loops, receiving a
\* NOT_READY_TO_OFFLOAD from s
NotReadyStep(s) ==
  /\ InEventLoop
  /\ CanRecv(s) /\ Head1(s).tag = NOT_READY_TO_OFFLOAD
  /\ toMaster' = Consume(s)

\* C19: a NOT_READY_TO_OFFLOAD from a rank that is not on offloadReadyList,
\* in either loop, fails no assertion and leaves the master's lists, its flag
\* and its outgoing channels unchanged.
C19_NotReadyToleratesAbsence ==
  [][\A s \in Workers : (NotReadyStep(s) /\ ~Contains(offloadReadyList, s)) =>
        /\ mpc' # "assert_failed"
        /\ UNCHANGED <<freeList, busyList, offloadReadyList, offloadActiveList,
                       offloadActive, toWorker, cnt>>]_vars

\* C20: the master sends no OFFLOAD to a rank whose last processed
\* advertisement is a NOT_READY_TO_OFFLOAD (the advertisement handled by the
\* step that sends included).
C20_StaleReady ==
  [][\A r \in Workers :
        CountTag(toWorker, toWorker', r, OFFLOAD) > 0 => ~withdrawn'[r]]_vars

\* this step is the master, in its second loop, receiving an OFFLOAD_RESP
\* from s
OffloadRespStep(s) ==
  /\ mpc = "loop2"
  /\ CanRecv(s) /\ Head1(s).tag = OFFLOAD_RESP
  /\ toMaster' = Consume(s)

\* prefix tasks a master step has sent, over all workers
PrefixTasksSent ==
  SumOver([r \in Workers |-> CountTag(toWorker, toWorker', r, START_PREFIX_TASK)], Workers)

C22_OfferWithoutFreeWorker ==
  [][\A s \in Workers :
       (OffloadRespStep(s) /\ Head1(s).count > EmptyOfferThreshold /\ freeList = << >>) =>
          /\ mpc' = "loop2"
          /\ UNCHANGED <<freeList, busyList>>]_vars

\* some OFFLOAD is sent by this step
SendsOffload == \E r \in Workers : CountTag(toWorker, toWorker', r, OFFLOAD) > 0

\* the positions of list ready whose rank is not on list active
NotYetAsked(ready, active) == {i \in 1..Len(ready) : ~Contains(active, ready[i])}

\* the smallest element of a non-empty set of positions
Oldest(S) == CHOOSE i \in S : \A j \in S : i <= j

\* C23: an OFFLOAD is sent only by an iteration of the second loop, and only
\* when, after the handler of that iteration, lb is on, 0 < |freeList| < W,
\* some rank of offloadReadyList is not on offloadActiveList and offloadActive
\* is false; exactly one OFFLOAD is sent, to the oldest such rank, which is
\* then on offloadActiveList with offloadActive set.
C23_StealTriggerGuard ==
  [][SendsOffload =>
       /\ mpc = "loop2"
       /\ \E s \in DOMAIN toMaster :
            /\ CanRecv(s) /\ toMaster' = Consume(s)
            /\ LET ms == Loop2Handle(Head1(s), s)
                   cand == NotYetAsked(ms.ready, ms.active)
               IN /\ lb
                  /\ Len(ms.free) > 0 /\ Len(ms.free) < W
                  /\ cand # {}
                  /\ ~ms.flag
                  /\ OffloadsSent(toWorker, toWorker') = 1
                  /\ CountTag(toWorker, toWorker', ms.ready[Oldest(cand)], OFFLOAD) = 1
                  /\ Contains(offloadActiveList', ms.ready[Oldest(cand)])
                  /\ freeList' = ms.free /\ offloadReadyList' = ms.ready
                  /\ offloadActive']_vars

\* an OFFLOAD is in flight to a rank that is on offloadActiveList
C23_Witness ==
  /\ mpc = "loop2" /\ lb /\ offloadActive
  /\ \E r \in Workers :
       /\ toWorker[r] # << >>
       /\ toWorker[r][Len(toWorker[r])].tag = OFFLOAD
       /\ Contains(offloadActiveList, r)
       /\ Contains(offloadReadyList, r)


\* worker r explores with an advertisement that stands, the master has r on
\* busyList and on offloadReadyList, and some worker is on freeList
AdvertisedWhileFree(r) ==
  /\ mpc = "loop2" /\ lb
  /\ freeList # << >>
  /\ Contains(busyList, r) /\ Contains(offloadReadyList, r)
  /\ wstate[r] = "explore" /\ advertised[r]

\* the master has sent r an OFFLOAD that r has not answered yet
Asked(r) == Contains(offloadActiveList, r)

\* an OFFLOAD_RESP of more than 4 bytes is in flight from s
RealOffer(s) ==
  \E j \in 1..Len(toMaster[s]) :
     toMaster[s][j].tag = OFFLOAD_RESP /\ toMaster[s][j].count > EmptyOfferThreshold

\* the prefix offered by s is in flight to some worker as a START_PREFIX_TASK
StolenQueued(s) ==
  \E v \in Workers : \E j \in 1..Len(toWorker[v]) :
     toWorker[v][j].tag = START_PREFIX_TASK /\ toWorker[v][j].data = <<"stolen", s>>

\* C24: with lb on, while some worker is free and worker r stays busy and
\* advertised, the master eventually sends r an OFFLOAD, unless the sentinel
\* wakes up first; and an OFFLOAD_RESP of more than 4 bytes in flight to the
\* master in its second loop eventually leads to a START_PREFIX_TASK with
\* those bytes, unless the loop has ended.
C24_StealLiveness ==
  /\ \A r \in FirstWorker..(MaxCores - 1) :
        (r \in Workers /\ AdvertisedWhileFree(r)) ~>
           (Asked(r) \/ ~AdvertisedWhileFree(r) \/ timeoutSent)
  /\ \A s \in FirstWorker..(MaxCores - 1) :
        (s \in Workers /\ mpc = "loop2" /\ RealOffer(s)) ~>
           (StolenQueued(s) \/ mpc # "loop2")


\* the tags the receive of the phase1Depth == 0 branch reacts to
NormalTags == {FINISH, TIMEOUT, BUG_FOUND}

\* this step is the master receiving, in one of its three receive modes, a
\* message from s whose tag has no branch in that mode
UnexpectedTagStep(s) ==
  /\ CanRecv(s) /\ toMaster' = Consume(s)
  /\ \/ mpc = "normal_recv" /\ Head1(s).tag \notin NormalTags
     \/ mpc = "loop1" /\ Head1(s).tag \notin Loop1Tags
     \/ mpc = "loop2" /\ Head1(s).tag \notin Loop2Tags

\* C25: in each receive mode of the master (phase1Depth == 0, first loop,
\* second loop) a message whose tag has no branch in that mode ends the run
\* with an abort or a failed assertion; the master never ignores it and never
\* returns from master() without aborting.
C25_ClosedTagAlphabet ==
  [][\A s \in DOMAIN toMaster :
       UnexpectedTagStep(s) => mpc' \in {"aborted", "assert_failed"}]_vars


\* this step is worker r receiving the KILL at the head of its channel
KillStep(r) ==
  /\ toWorker[r] # << >> /\ Head(toWorker[r]).tag = KILL
  /\ toWorker' = [toWorker EXCEPT ![r] = Tail(@)]

\* C26: a worker that receives KILL, whether it is idle in worker() or inside
\* a task, sends exactly one KILL_COMP to the master and leaves its loop.
C26_KillAnswered ==
  [][\A r \in Workers :
       KillStep(r) =>
          /\ toMaster' = Send(toMaster, r, Dummy(KILL_COMP))
          /\ wstate'[r] = "exited"]_vars


\* this step is the prefix task of worker r ending by natural termination
NaturalEnd(r) == wstate[r] = "explore" /\ wstate'[r] = "wait"

\* messages with tag t this step has appended to the channel of r to the master
SentToMaster(r, t) == CountTag(toMaster, toMaster', r, t)

OffloadStep(r) ==
  /\ toWorker[r] # << >> /\ Head(toWorker[r]).tag = OFFLOAD
  /\ toWorker' = [toWorker EXCEPT ![r] = Tail(@)]

\* C28: the step in which a worker receives an OFFLOAD sends exactly one
\* OFFLOAD_RESP, of one byte when the worker is not exploring; and the master
\* step that receives an OFFLOAD_RESP of at most 4 bytes sends no
\* START_PREFIX_TASK, leaves freeList and busyList unchanged, stays in its
\* loop, and leaves offloadActive set only if it has sent a new OFFLOAD.
C28_EmptyOffer ==
  [][/\ \A r \in Workers :
          OffloadStep(r) =>
             \E m \in Offers(r) \cup {EmptyOffer} :
                /\ m.tag = OFFLOAD_RESP
                /\ toMaster' = Send(toMaster, r, m)
                /\ wstate[r] # "explore" => m.count = 1
     /\ \A s \in Workers :
          (OffloadRespStep(s) /\ Head1(s).count <= EmptyOfferThreshold) =>
             /\ PrefixTasksSent = 0
             /\ UNCHANGED <<freeList, busyList>>
             /\ mpc' = "loop2"
             /\ offloadActive' => SendsOffload]_vars

\* the one real offer of the run was ShortLen bytes long: the master has
\* received it, the worker seeded free has had no task and is still free
C28_Witness ==
  /\ mpc = "loop2" /\ lb
  /\ num_cores = MaxCores /\ K = 1
  /\ MaxOffers - offersLeft = 1
  /\ \A s \in Workers : \A j \in 1..Len(toMaster[s]) : toMaster[s][j].tag # OFFLOAD_RESP
  /\ \A v \in Workers : Contains(freeList, v) => taskState[v] = "never"
  /\ freeList # << >>


\* the rank of the timeout sentinel
SentinelRank == 1

\* what this step has appended to the channel from rank 1 to the master
SentinelSends == Appended(toMaster, toMaster', SentinelRank)

\* rank 1 sends one message at most, a TIMEOUT to rank 0; no channel leads
\* from or to rank 1 other than the one to the master
SentinelSendsAtMostOnce ==
  /\ [][SentinelSends # << >> =>
          /\ ~timeoutSent /\ timeoutSent'
          /\ SentinelSends = << Dummy(TIMEOUT) >>
          /\ UNCHANGED toWorker]_vars
  /\ [](SentinelRank \notin DOMAIN toWorker)

\* C29 as stated: over the whole run rank 1 sends exactly one message, a
\* TIMEOUT to rank 0, so a run that has ended has seen it sent.
C29_AsStated ==
  /\ SentinelSendsAtMostOnce
  /\ [](mpc = "aborted" => timeoutSent)

\* C29: rank 1 sends at most one message over the run, a TIMEOUT to rank 0,
\* nothing to a worker, and receives nothing; it has sent none when the
\* master aborts the run before the sleep of the sentinel ends.
C29_TimeoutSentinel ==
  /\ SentinelSendsAtMostOnce
  /\ [](~timeoutSent => toMaster[SentinelRank] = << >>)

\* the sentinel has sent its TIMEOUT, which the master has not received yet
C29_Witness ==
  /\ timeoutSent
  /\ toMaster[SentinelRank] = << Dummy(TIMEOUT) >>
  /\ mpc \in {"loop1", "loop2", "normal_recv"}


\* OFFLOAD requests sent to r that the master has not got the answer of: the
\* ones r has not received yet and the ones whose OFFLOAD_RESP is in flight
\* (a worker answers in the step in which it receives the request)
PendingOffloads(r) ==
  Cardinality({j \in 1..Len(toWorker[r]) : toWorker[r][j].tag = OFFLOAD})
  + Cardinality({j \in 1..Len(toMaster[r]) : toMaster[r][j].tag = OFFLOAD_RESP})

\* C30: a rank is put on offloadReadyList only by the receipt of a
\* READY_TO_OFFLOAD from it and OFFLOAD is sent only to a rank on that list,
\* so a READY_TO_OFFLOAD(r) received precedes every OFFLOAD(r); and at most
\* one OFFLOAD(r) is unanswered at any time, so the OFFLOAD_RESP the master
\* receives from r answers the most recent OFFLOAD(r) and no other.
C30_StealCausality ==
  /\ [][\A r \in Workers :
          /\ Occurrences(offloadReadyList', r) > Occurrences(offloadReadyList, r) =>
                /\ mpc \in {"loop1", "loop2"}
                /\ CanRecv(r) /\ Head1(r).tag = READY_TO_OFFLOAD
                /\ toMaster' = Consume(r)
          /\ CountTag(toWorker, toWorker', r, OFFLOAD) > 0 =>
                Contains(offloadReadyList', r)]_vars
  /\ [](\A r \in Workers : PendingOffloads(r) <= 1)


\* the names of the four search policies
PolicyNames == {"DFS", "BFS", "RAND", "COVNEW"}

\* worker r is inside executeWorker: it has an interpreter
HasInterpreter(r) == wstate[r] \in {"explore", "wait", "halt", "normal"}

\* C31: the search mode of a worker's interpreter is the configured
\* --searchPolicy when that is DFS, BFS, RAND or COVNEW, and DFS for every
\* other configured value.
C31_SearchPolicy ==
  \A r \in Workers :
     HasInterpreter(r) =>
        searchMode[r] = IF searchPolicy \in PolicyNames THEN searchPolicy ELSE "DFS"

\* a worker explores a prefix under DFS although another name was configured
C31_Witness ==
  /\ searchPolicy \notin PolicyNames
  /\ \E r \in Workers : wstate[r] = "explore" /\ searchMode[r] = "DFS"


\* C32: when the master processes the FINISH of a rank r that is on
\* offloadActiveList (r was sent an OFFLOAD and the master has not received
\* its OFFLOAD_RESP), the handler takes r off offloadActiveList and clears
\* offloadActive: after the step r is on the list, and the flag is set, only
\* if the steal trigger of the same iteration has sent a new OFFLOAD.
C32_StealingRace ==
  [][\A r \in Workers :
       (FinishStep(r) /\ Contains(offloadActiveList, r)) =>
          /\ Contains(offloadActiveList', r) => CountTag(toWorker, toWorker', r, OFFLOAD) > 0
          /\ offloadActive' => SendsOffload
          /\ ~Contains(Loop2Handle(Head1(r), r).active, r)
          /\ ~Loop2Handle(Head1(r), r).flag]_vars

\* the master has processed the FINISH of a steal target and goes on: the
\* rank is free and off offloadActiveList while its OFFLOAD, or the answer to
\* it, is still in flight
C32_Witness ==
  /\ mpc = "loop2"
  /\ \E r \in Workers :
       /\ Contains(freeList, r)
       /\ ~Contains(offloadActiveList, r)
       /\ PendingOffloads(r) > 0


\* this step is the master receiving a message from s in the
\* phase1Depth == 0 branch
CollectorStep(s) ==
  /\ mpc = "normal_recv"
  /\ CanRecv(s) /\ toMaster' = Consume(s)

\* C33: with phase1Depth = 0 the master leaves its receive only on FINISH,
\* TIMEOUT or BUG_FOUND; on a message with any other tag it keeps collecting,
\* and it never returns from master() without an abort.
C33_CollectsUntilTerminal ==
  /\ [][\A s \in DOMAIN toMaster :
          CollectorStep(s) =>
             IF Head1(s).tag \in NormalTags
             THEN mpc' \in {"normal_kill", "aborted"}
             ELSE mpc' = "normal_recv"]_vars
  /\ [](mpc # "returned")


\* seeding is over and some phase-1 prefix has not been sent yet
PrefixUnsent ==
  /\ phase1Depth # 0 /\ mpc # "start"
  /\ \E i \in 1..K : prefixSends[i] = 0

\* C34: while a phase-1 prefix is still unsent after seeding, freeList is
\* empty and no OFFLOAD has been sent; and the step that sends an OFFLOAD
\* finds every phase-1 prefix sent.
C34_NoStealBeforeDispatch ==
  /\ [](PrefixUnsent =>
          /\ freeList = << >>
          /\ outstanding = 0
          /\ \A r \in Workers : PendingOffloads(r) = 0)
  /\ [][SendsOffload => \A i \in 1..K : prefixSends[i] >= 1]_vars

\* with load balancing on, a worker has advertised while a prefix is unsent
C34_Witness ==
  /\ PrefixUnsent /\ lb /\ mpc = "loop1"
  /\ offloadReadyList # << >>
  /\ freeList = << >>


\* C35: at every step of the master's two loops each worker rank occurs
\* exactly once in freeList and busyList taken together, and the lists hold
\* worker ranks only.
C35_FreeBusyPartition ==
  InEventLoop =>
     /\ \A r \in Workers : Occurrences(freeList, r) + Occurrences(busyList, r) = 1
     /\ Ranks(freeList) \cup Ranks(busyList) \subseteq Workers


\* a worker seeded free has run a stolen prefix and is on freeList again,
\* while another worker is busy
C35_Witness ==
  /\ mpc = "loop2"
  /\ busyList # << >>
  /\ \E r \in Workers :
       GotStolen(r) /\ taskState[r] = "done" /\ Contains(freeList, r)


\* C36: the master sends no START_PREFIX_TASK to a worker it has sent a KILL
\* before.
C36_NoTaskAfterKill ==
  [][\A r \in Workers :
       killSent[r] >= 1 => CountTag(toWorker, toWorker', r, START_PREFIX_TASK) = 0]_vars


\* C37: over the whole run the master sends each worker at most one KILL.
C37_KillAtMostOnce == \A r \in Workers : killSent[r] <= 1


\* C38: every OFFLOAD the master sends goes to a rank that is on busyList and
\* not on freeList when it is sent.
C38_OffloadOnlyToBusy ==
  [][\A r \in Workers :
       CountTag(toWorker, toWorker', r, OFFLOAD) > 0 =>
          /\ Contains(busyList', r)
          /\ ~Contains(freeList', r)]_vars


\* C39: an OFFLOAD_RESP whose payload is not the one-byte packet of an empty
\* offer is forwarded: the iteration that receives it sends exactly one
\* START_PREFIX_TASK, to one worker, with the count and the bytes received.
C39_NoStolenSubtreeLost ==
  [][\A s \in Workers :
       (OffloadRespStep(s) /\ Head1(s) # EmptyOffer) =>
          /\ PrefixTasksSent = 1
          /\ \E v \in Workers :
               /\ Len(Appended(toWorker, toWorker', v)) >= 1
               /\ Appended(toWorker, toWorker', v)[1] =
                    [tag |-> START_PREFIX_TASK, count |-> Head1(s).count,
                     data |-> Head1(s).data]]_vars


\* every worker is on freeList and no phase-1 prefix is unsent, with the
\* master in its second loop
AllFreeNothingPending ==
  /\ mpc = "loop2"
  /\ cnt = K
  /\ Ranks(freeList) = Workers

\* C40: whenever every worker is free and no prefix is pending the master
\* eventually starts a shutdown (KILL to the workers, collection of KILL_COMP,
\* abort), also when the sentinel's TIMEOUT never comes.
C40_TerminationLiveness ==
  AllFreeNothingPending ~> (mpc \in {"collect", "aborted"})

====
